---- MODULE Spec2Model ----
(***************************************************************************)
(* A model of srtunectl (src/main.go, lines 1-501): the bulk route         *)
(* installer.  The processes are the main goroutine (main and the          *)
(* addRoutesFromDir calls it makes), the worker goroutines of the current  *)
(* batch, the signal-handler goroutine, and the duplicatesWriter           *)
(* goroutine started by NewStats.                                          *)
(*                                                                         *)
(* Strings are modelled by what the program can observe of them:           *)
(*   - an error text is the set of the classifier's marker substrings it   *)
(*     contains (classifyError only ever asks strings.Contains);           *)
(*   - a destination string is one of a few literal strings, whose syntax  *)
(*     (what net.ParseCIDR and net.ParseIP make of it) is tabulated in     *)
(*     Syntax.                                                             *)
(***************************************************************************)
EXTENDS Naturals, Integers, Sequences, FiniteSets, TLC

(***************************************************************************)
(* Bounds of the model.                                                    *)
(***************************************************************************)
\* the largest goroutine_count the configuration is drawn from
MaxGoroutineCount == 2
\* the number of destinations dispatched in one run, over all route files
MaxDispatched == 2
\* capacity of dupChan; the program's value is 50000 (src/main.go:30)
duplicatesChanBuffer == 1
\* flush threshold of the writer; the program's value is 10000 (src/main.go:29)
duplicatesFlushThreshold == 2
\* the number of destinations of a run in which every one of them is a
\* duplicate: more than the flush threshold and the channel capacity
MaxDuplicates == 3

(***************************************************************************)
(* Error texts.                                                            *)
(***************************************************************************)
Markers ==
    { "file exists", "network is unreachable", "no such device",
      "operation not permitted", "invalid argument", "no route to host" }

\* a Go error value: nil, or an error whose text contains the markers in text
NilErr == [nil |-> TRUE, text |-> {}]
Err(text) == [nil |-> FALSE, text |-> text]

\* strings.Contains(errStr, marker)
Contains(errStr, marker) == marker \in errStr

\* classifyError without the test for "file exists"
classifyError_NoFileExists(errStr) ==
    IF Contains(errStr, "network is unreachable") THEN "network_unreachable"
    ELSE IF Contains(errStr, "no such device") THEN "no_such_device"
    ELSE IF Contains(errStr, "operation not permitted") THEN "operation_not_permitted"
    ELSE IF Contains(errStr, "invalid argument") THEN "invalid_argument"
    ELSE IF Contains(errStr, "no route to host") THEN "no_route_to_host"
    ELSE "unknown"

classifyError_SwappedChecks(errStr) ==
    IF Contains(errStr, "network is unreachable") THEN "network_unreachable"
    ELSE IF Contains(errStr, "file exists") THEN "file_exists"
    ELSE IF Contains(errStr, "no such device") THEN "no_such_device"
    ELSE IF Contains(errStr, "operation not permitted") THEN "operation_not_permitted"
    ELSE IF Contains(errStr, "invalid argument") THEN "invalid_argument"
    ELSE IF Contains(errStr, "no route to host") THEN "no_route_to_host"
    ELSE "unknown"

\* classifyError (src/main.go:199-222), on err.Error()
classifyError(errStr) ==
    IF Contains(errStr, "file exists") THEN "file_exists"
    ELSE IF Contains(errStr, "network is unreachable") THEN "network_unreachable"
    ELSE IF Contains(errStr, "no such device") THEN "no_such_device"
    ELSE IF Contains(errStr, "operation not permitted") THEN "operation_not_permitted"
    ELSE IF Contains(errStr, "invalid argument") THEN "invalid_argument"
    ELSE IF Contains(errStr, "no route to host") THEN "no_route_to_host"
    ELSE "unknown"

(***************************************************************************)
(* Destination strings and their parsing.                                  *)
(***************************************************************************)
\* The destination strings route files are drawn from.  The last two are
\* malformed; "file exists" is a malformed string that itself contains one
\* of the classifier's markers.
Destinations ==
    { "10.0.0.0/24", "10.0.0.1", "2001:db8::1", "not-an-ip", "file exists" }

\* What the Go parsers accept: form is "cidr" (address/prefix), "ip" (bare
\* address) or "junk"; bits is the address length of the family; contains
\* is the set of markers occurring in the string itself.
Syntax(s) ==
    CASE s = "10.0.0.0/24" ->
            [form |-> "cidr", ip |-> "10.0.0.0", ones |-> 24, bits |-> 32, contains |-> {}]
      [] s = "10.0.0.1" ->
            [form |-> "ip", ip |-> "10.0.0.1", ones |-> 0, bits |-> 32, contains |-> {}]
      [] s = "2001:db8::1" ->
            [form |-> "ip", ip |-> "2001:db8::1", ones |-> 0, bits |-> 128, contains |-> {}]
      [] s = "file exists" ->
            [form |-> "junk", ip |-> "", ones |-> 0, bits |-> 0, contains |-> {"file exists"}]
      [] OTHER ->
            [form |-> "junk", ip |-> "", ones |-> 0, bits |-> 0, contains |-> {}]

NoNet == [IP |-> "", ones |-> 0, bits |-> 0]

\* net.ParseCIDR(s): the network, or the error "invalid CIDR address: " + s
ParseCIDR(s) ==
    IF Syntax(s).form = "cidr"
    THEN [err |-> NilErr,
          net |-> [IP |-> Syntax(s).ip, ones |-> Syntax(s).ones, bits |-> Syntax(s).bits]]
    ELSE [err |-> Err(Syntax(s).contains), net |-> NoNet]

\* net.ParseIP(s): the address, or "" for Go's nil
ParseIP(s) == IF Syntax(s).form = "ip" THEN Syntax(s).ip ELSE ""

\* net.CIDRMask(ones, bits) applied to ip
IPNet(ip, ones, bits) == [IP |-> ip, ones |-> ones, bits |-> bits]

\* addRoute, lines 341-351: the destination network, or the parse error
\* fmt.Errorf("error parsing destination %s: %w", destination, err)
parseDestination(destination) ==
    IF ParseCIDR(destination).err.nil
    THEN [err |-> NilErr, ipNet |-> ParseCIDR(destination).net]
    ELSE IF ParseIP(destination) = ""
         THEN [err |-> Err(Syntax(destination).contains \cup ParseCIDR(destination).err.text),
               ipNet |-> NoNet]
         ELSE [err |-> NilErr, ipNet |-> IPNet(ParseIP(destination), 32, 32)]

(***************************************************************************)
(* Configuration and environment.                                          *)
(***************************************************************************)
\* the two addRoutesFromDir calls of main (lines 485-497): directory,
\* gateway and interface of each
mainRouteDir == "data"
defaultRouteDir == "default_route"
Dirs == <<mainRouteDir, defaultRouteDir>>
Gateways == <<"10.0.0.1", "192.168.1.1">>
Interfaces == <<"tun0", "eth0">>

\* errno texts netlink.RouteAdd may fail with, as the markers they contain
\* (ESRCH, "no such process", contains none)
Errnos ==
    { {"file exists"}, {"network is unreachable"}, {"no such device"},
      {"operation not permitted"}, {"invalid argument"}, {"no route to host"}, {} }

\* The faults the environment of one run may answer a route-add with,
\* whatever the table holds: none (the kernel only ever answers success or
\* EEXIST), or one errno for the run (no privilege, interface gone, ...).
KernelFaults == { {} } \cup { {e} : e \in Errnos \ {{"file exists"}} }

\* the routing tables a run may start from
InitialTables == { {}, {IPNet("10.0.0.0", 24, 32)} }

\* fmt.Sprintf("%s via %s dev %s", d, gateway, ifaceName)
FormatRoute(d, gateway, ifaceName) == <<d, " via ", gateway, " dev ", ifaceName>>

CounterOrder ==
    << "Success", "AlreadyExist", "NetworkUnreachable", "OperationNotPermit",
       "InvalidArgument", "NoRouteToHost", "UnknownError" >>
CounterNames == { CounterOrder[i] : i \in 1..Len(CounterOrder) }

Closers == {"main", "defer", "signal"}
Printers == {"main", "signal"}

VARIABLES
    goroutineCount,  \* config.GoroutineCount
    kernelFault,     \* the faults the kernel of this run may answer with
    inputs,          \* what the route files of this run hold: [destinations, budget]
    errText,         \* classifyError on its own: the error text it is given
    errKind,         \* classifyError on its own: what it returned, "" before
    routes,          \* the kernel's routing table: the networks installed
    stats,           \* the seven counters of Stats
    dupChan,         \* s.dupChan: the records queued
    dupClosed,       \* close(s.dupChan) has happened
    writerDone,      \* close(s.writerDone) has happened
    duplicatesFile,  \* s.duplicatesFile: "nil", "open" or "closed"
    fileLines,       \* the lines of the file s.filename on disk
    buffer,          \* duplicatesWriter's buffer
    flushes,         \* the number of flush() calls that reached the write loop
    dropped,         \* the records flush() cleared from the buffer unwritten
    wpc,             \* where duplicatesWriter stands
    closeOnce,       \* s.closeOnce: [done, m]
    cpc,             \* where each call of Stats.Close stands
    reports,         \* what each PrintStats call has logged
    mpc,             \* where the main goroutine stands
    dir,             \* which addRoutesFromDir call main is in (1 or 2)
    answer,          \* what the calls at the top of addRoutesFromDir returned
    remaining,       \* elements of destinations not yet ranged over
    dest,            \* the loop variable dest
    sem,             \* tokens in the channel sem
    wg,              \* the WaitGroup counter
    workers,         \* the goroutines launched for the current route file
    dispatched,      \* goroutines launched so far in this run
    hpc,             \* where the signal-handler goroutine stands
    proc             \* "running", or how the process ended: "exit0", "exit1",
                     \* "panic: send on closed channel", "panic: close of closed channel"

vars ==
    << goroutineCount, kernelFault, inputs, errText, errKind, routes, stats, dupChan, dupClosed,
       writerDone, duplicatesFile, fileLines, buffer, flushes, dropped, wpc,
       closeOnce, cpc, reports, mpc, dir, answer, remaining, dest, sem,
       wg, workers, dispatched, hpc, proc >>

envVars == << goroutineCount, kernelFault, inputs, errText, errKind >>
statsVars == << stats >>
chanVars == << dupChan, dupClosed >>
writerVars == << writerDone, duplicatesFile, fileLines, buffer, flushes, dropped, wpc >>
closeVars == << closeOnce, cpc >>
mainVars == << mpc, dir, answer, remaining, dest >>
batchVars == << sem, wg, workers, dispatched >>

\* NewStats (lines 68-77) and main up to line 483, for a run whose route
\* files hold the destinations in and whose kernel may fail with faults:
\* the state in which the first addRoutesFromDir call is made
Started(in, faults) ==
    /\ goroutineCount \in 1..MaxGoroutineCount
    /\ kernelFault \in faults
    /\ inputs = in
    /\ errText = {}
    /\ errKind = ""
    /\ routes \in InitialTables
    /\ stats = [c \in CounterNames |-> 0]
    /\ dupChan = << >>
    /\ dupClosed = FALSE
    /\ writerDone = FALSE
    /\ duplicatesFile = "nil"
    /\ fileLines = << >>
    /\ buffer = << >>
    /\ flushes = 0
    /\ dropped = 0
    /\ wpc = "range"
    /\ closeOnce = [done |-> FALSE, m |-> "free"]
    /\ cpc = [c \in Closers |-> "idle"]
    /\ reports = [p \in Printers |-> << >>]
    /\ mpc = "dir"
    /\ dir = 1
    /\ answer = ""
    /\ remaining = 0
    /\ dest = ""
    /\ sem = 0
    /\ wg = 0
    /\ workers = << >>
    /\ dispatched = 0
    /\ hpc = "wait"
    /\ proc = "running"

\* runs over route files of well-formed and malformed destinations, up to
\* MaxDispatched of them, on a kernel that answers success or EEXIST, or
\* may also fail with ENODEV
EngineFaults == { {}, {{"no such device"}} }
Init ==
    Started([destinations |-> {"10.0.0.0/24", "not-an-ip"}, budget |-> MaxDispatched],
            EngineFaults)

Running == proc = "running"

(***************************************************************************)
(* Stats: the counters (lines 131-153).                                    *)
(***************************************************************************)
\* atomic.AddInt64(&s.<counter>, 1)
AtomicAdd(s, counter) == [s EXCEPT ![counter] = @ + 1]

AddSuccess(s) == AtomicAdd(s, "Success")

\* AddError with two cases of the switch exchanged
AddError_SwappedCases(s, errType) ==
    CASE errType = "network_unreachable" -> AtomicAdd(s, "NoRouteToHost")
      [] errType = "operation_not_permitted" -> AtomicAdd(s, "OperationNotPermit")
      [] errType = "invalid_argument" -> AtomicAdd(s, "InvalidArgument")
      [] errType = "no_route_to_host" -> AtomicAdd(s, "NetworkUnreachable")
      [] errType = "unknown" -> AtomicAdd(s, "UnknownError")
      [] OTHER -> s

\* AddError with the "unknown" case missing from the switch
AddError_NoUnknown(s, errType) ==
    CASE errType = "network_unreachable" -> AtomicAdd(s, "NetworkUnreachable")
      [] errType = "operation_not_permitted" -> AtomicAdd(s, "OperationNotPermit")
      [] errType = "invalid_argument" -> AtomicAdd(s, "InvalidArgument")
      [] errType = "no_route_to_host" -> AtomicAdd(s, "NoRouteToHost")
      [] OTHER -> s

\* AddError: an errType outside the switch increments nothing
AddError(s, errType) ==
    CASE errType = "network_unreachable" -> AtomicAdd(s, "NetworkUnreachable")
      [] errType = "operation_not_permitted" -> AtomicAdd(s, "OperationNotPermit")
      [] errType = "invalid_argument" -> AtomicAdd(s, "InvalidArgument")
      [] errType = "no_route_to_host" -> AtomicAdd(s, "NoRouteToHost")
      [] errType = "unknown" -> AtomicAdd(s, "UnknownError")
      [] OTHER -> s

(***************************************************************************)
(* duplicatesWriter (lines 79-129).                                        *)
(***************************************************************************)
\* WriterReceive without the threshold test of line 114
WriterReceive_NoThreshold ==
    /\ Running
    /\ wpc = "range"
    /\ dupChan # << >>
    /\ buffer' = Append(buffer, Head(dupChan))
    /\ dupChan' = Tail(dupChan)
    /\ UNCHANGED << envVars, routes, statsVars, dupClosed, writerDone, duplicatesFile,
                    fileLines, flushes, dropped, wpc, closeVars, reports, mainVars,
                    batchVars, hpc, proc >>

\* for route := range s.dupChan: one record received and appended; the
\* threshold test of line 114 decides whether flush() comes next
WriterReceive ==
    /\ Running
    /\ wpc = "range"
    /\ dupChan # << >>
    /\ buffer' = Append(buffer, Head(dupChan))
    /\ dupChan' = Tail(dupChan)
    /\ wpc' = IF Len(buffer') >= duplicatesFlushThreshold THEN "flush" ELSE "range"
    /\ UNCHANGED << envVars, routes, statsVars, dupClosed, writerDone, duplicatesFile,
                    fileLines, flushes, dropped, closeVars, reports, mainVars,
                    batchVars, hpc, proc >>

\* the range loop ends: the channel is closed and empty
WriterRangeEnd ==
    /\ Running
    /\ wpc = "range"
    /\ dupChan = << >>
    /\ dupClosed
    /\ wpc' = "final"
    /\ UNCHANGED << envVars, routes, statsVars, chanVars, writerDone, duplicatesFile,
                    fileLines, buffer, flushes, dropped, closeVars, reports,
                    mainVars, batchVars, hpc, proc >>

\* where the writer goes after flush(): back into the loop (line 115), or
\* on to closing the file (line 119)
AfterFlush == IF wpc = "flush" THEN "range" ELSE "closeFile"

\* Flush without the test for an empty buffer (line 83)
Flush_NoEmptyCheck ==
    /\ Running
    /\ wpc \in {"flush", "final"}
    /\ wpc' = IF wpc = "flush" THEN "range" ELSE "closeFile"
    /\ \/ /\ duplicatesFile = "nil"
          /\ buffer' = << >>
          /\ dropped' = dropped + Len(buffer)
          /\ UNCHANGED << duplicatesFile, fileLines, flushes >>
       \/ /\ duplicatesFile' = "open"
          /\ \E n \in 0..Len(buffer) :
                /\ fileLines' = fileLines \o SubSeq(buffer, 1, n)
                /\ dropped' = dropped + (Len(buffer) - n)
          /\ flushes' = flushes + 1
          /\ buffer' = << >>
    /\ UNCHANGED << envVars, routes, statsVars, chanVars, writerDone, closeVars,
                    reports, mainVars, batchVars, hpc, proc >>

\* flush() (lines 82-110).  os.Create may fail, and then the buffer is
\* dropped; a failing write (the bufio.Writer's error is sticky) leaves a
\* proper prefix of the buffer in the file, and the buffer is cleared too.
Flush ==
    /\ Running
    /\ wpc \in {"flush", "final"}
    /\ wpc' = AfterFlush
    /\ IF Len(buffer) = 0
       THEN UNCHANGED << duplicatesFile, fileLines, buffer, flushes, dropped >>
       ELSE \/ /\ duplicatesFile = "nil"
               /\ buffer' = << >>
               /\ dropped' = dropped + Len(buffer)
               /\ UNCHANGED << duplicatesFile, fileLines, flushes >>
            \/ /\ duplicatesFile' = "open"
               /\ \E n \in 0..Len(buffer) :
                     /\ fileLines' = fileLines \o SubSeq(buffer, 1, n)
                     /\ dropped' = dropped + (Len(buffer) - n)
               /\ flushes' = flushes + 1
               /\ buffer' = << >>
    /\ UNCHANGED << envVars, routes, statsVars, chanVars, writerDone, closeVars,
                    reports, mainVars, batchVars, hpc, proc >>

\* lines 121-128: the file is closed if it was ever opened, then
\* close(s.writerDone); the goroutine ends
WriterExit ==
    /\ Running
    /\ wpc = "closeFile"
    /\ duplicatesFile' = IF duplicatesFile = "nil" THEN "nil" ELSE "closed"
    /\ writerDone' = TRUE
    /\ wpc' = "exited"
    /\ UNCHANGED << envVars, routes, statsVars, chanVars, fileLines, buffer, flushes,
                    dropped, closeVars, reports, mainVars, batchVars, hpc, proc >>

(***************************************************************************)
(* Stats.Close (lines 192-197), called at three places: line 499 ("main"), *)
(* the defer of line 472 ("defer") and the signal handler, line 480        *)
(* ("signal").                                                             *)
(***************************************************************************)
\* the caller has reached its call of Close
AtCloseCall(c) ==
    CASE c = "main" -> mpc = "close"
      [] c = "defer" -> mpc = "defer"
      [] c = "signal" -> hpc = "close"

\* s.closeOnce.Do when the function has already run: Close returns at once
OnceDone(c) ==
    /\ Running
    /\ AtCloseCall(c)
    /\ cpc[c] = "idle"
    /\ closeOnce.done
    /\ cpc' = [cpc EXCEPT ![c] = "returned"]
    /\ UNCHANGED << envVars, routes, statsVars, chanVars, writerVars, closeOnce,
                    reports, mainVars, batchVars, hpc, proc >>

\* OnceEnter without the Once: every call closes the channel
OnceEnter_NoOnce(c) ==
    /\ Running
    /\ AtCloseCall(c)
    /\ cpc[c] = "idle"
    /\ IF dupClosed
       THEN /\ proc' = "panic: close of closed channel"
            /\ UNCHANGED << dupClosed, closeOnce, cpc >>
       ELSE /\ dupClosed' = TRUE
            /\ closeOnce' = [closeOnce EXCEPT !.m = c]
            /\ cpc' = [cpc EXCEPT ![c] = "waitWriter"]
            /\ UNCHANGED proc
    /\ UNCHANGED << envVars, routes, statsVars, dupChan, writerVars, reports,
                    mainVars, batchVars, hpc >>

\* s.closeOnce.Do takes the mutex with done still unset, and this caller
\* runs the function: line 194, close(s.dupChan), where closing a closed
\* channel panics.  A caller that finds the mutex held waits for it.
OnceEnter(c) ==
    /\ Running
    /\ AtCloseCall(c)
    /\ cpc[c] = "idle"
    /\ ~closeOnce.done
    /\ closeOnce.m = "free"
    /\ IF dupClosed
       THEN /\ proc' = "panic: close of closed channel"
            /\ UNCHANGED << dupClosed, closeOnce, cpc >>
       ELSE /\ dupClosed' = TRUE
            /\ closeOnce' = [closeOnce EXCEPT !.m = c]
            /\ cpc' = [cpc EXCEPT ![c] = "waitWriter"]
            /\ UNCHANGED proc
    /\ UNCHANGED << envVars, routes, statsVars, dupChan, writerVars, reports,
                    mainVars, batchVars, hpc >>

\* AwaitWriterDone, returning without the receive from writerDone
AwaitWriterDone_NoWait(c) ==
    /\ Running
    /\ cpc[c] = "waitWriter"
    /\ closeOnce' = [done |-> TRUE, m |-> "free"]
    /\ cpc' = [cpc EXCEPT ![c] = "returned"]
    /\ UNCHANGED << envVars, routes, statsVars, chanVars, writerVars, reports,
                    mainVars, batchVars, hpc, proc >>

\* line 195: <-s.writerDone, then Do marks the Once done and unlocks
AwaitWriterDone(c) ==
    /\ Running
    /\ cpc[c] = "waitWriter"
    /\ writerDone
    /\ closeOnce' = [done |-> TRUE, m |-> "free"]
    /\ cpc' = [cpc EXCEPT ![c] = "returned"]
    /\ UNCHANGED << envVars, routes, statsVars, chanVars, writerVars, reports,
                    mainVars, batchVars, hpc, proc >>

(***************************************************************************)
(* Stats.PrintStats (lines 155-190), called after Close at lines 500 and   *)
(* 481.  Its seven atomic loads and its log.Print are one step of the      *)
(* model: the report is made of the counters as they stand at that step.   *)
(***************************************************************************)
\* the caller's Close has returned and PrintStats is its next call
AtPrintStats(p) ==
    /\ cpc[p] = "returned"
    /\ IF p = "main" THEN mpc = "close" ELSE hpc = "close"

ReportLabels ==
    << "Successfully added", "Already existed (skipped)", "Network unreachable",
       "Operation not permitted", "Invalid argument", "No route to host",
       "Unknown errors" >>

RECURSIVE SumSeq(_)
SumSeq(q) == IF q = << >> THEN 0 ELSE Head(q) + SumSeq(Tail(q))

\* the lines of the statistics block from line i on: the success and
\* already-existed lines always, an error line only when its counter is
\* positive
RECURSIVE ReportLines(_, _)
ReportLines(values, i) ==
    IF i > Len(values) THEN << >>
    ELSE (IF i <= 2 \/ values[i] > 0 THEN << <<ReportLabels[i], values[i]>> >> ELSE << >>)
         \o ReportLines(values, i + 1)

\* the statistics block: the lines, then the total of the seven counters
FormatStats(s) ==
    ReportLines([i \in 1..Len(CounterOrder) |-> s[CounterOrder[i]]], 1)
    \o << <<"Total processed",
            SumSeq([i \in 1..Len(CounterOrder) |-> s[CounterOrder[i]]])>> >>

\* PrintStats called before Close (lines 480-481 or 499-500 exchanged)
PrintStats_BeforeClose(p) ==
    /\ Running
    /\ IF p = "main" THEN mpc = "close" ELSE hpc = "close"
    /\ reports[p] = << >>
    /\ reports' = [reports EXCEPT ![p] = FormatStats(stats)]
    /\ UNCHANGED << envVars, routes, statsVars, chanVars, writerVars, closeVars,
                    mainVars, batchVars, hpc, proc >>

\* PrintStats; then the caller goes on: main returns (its deferred Close
\* runs), the handler calls os.Exit(0), line 482, which ends the process
PrintStats(p) ==
    /\ Running
    /\ AtPrintStats(p)
    /\ reports' = [reports EXCEPT ![p] = FormatStats(stats)]
    /\ IF p = "main"
       THEN mpc' = "defer" /\ UNCHANGED << hpc, proc >>
       ELSE hpc' = "exit" /\ proc' = "exit0" /\ UNCHANGED mpc
    /\ UNCHANGED << envVars, routes, statsVars, chanVars, writerVars, closeVars,
                    dir, answer, remaining, dest, batchVars >>

(***************************************************************************)
(* The signal handler goroutine (lines 477-483).                           *)
(***************************************************************************)
\* <-sigChan: SIGINT or SIGTERM is delivered
Signal ==
    /\ Running
    /\ hpc = "wait"
    /\ hpc' = "close"
    /\ UNCHANGED << envVars, routes, statsVars, chanVars, writerVars, closeVars,
                    reports, mainVars, batchVars, proc >>

\* main returns once its deferred Close has returned: the process ends
MainReturn ==
    /\ Running
    /\ mpc = "defer"
    /\ cpc["defer"] = "returned"
    /\ mpc' = "exit"
    /\ proc' = "exit0"
    /\ UNCHANGED << envVars, routes, statsVars, chanVars, writerVars, closeVars,
                    reports, dir, answer, remaining, dest, batchVars,
                    hpc >>

(***************************************************************************)
(* addRoute (lines 340-364).                                               *)
(***************************************************************************)
\* netlink.RouteAdd on the routing table: the answers the kernel may give,
\* each with the table it leaves.  EEXIST when the network is installed
\* already, success (and the network installed) when it is not, or one of
\* the faults of this run.
RouteAdd(ipNet, table, faults) ==
    { [err |-> Err(e), routes |-> table] : e \in faults }
    \cup (IF ipNet \in table
          THEN { [err |-> Err({"file exists"}), routes |-> table] }
          ELSE { [err |-> NilErr, routes |-> table \cup {ipNet}] })

\* addRoute: what it may return, with the table it leaves and whether the
\* kernel was called.  The error of line 360 is
\* fmt.Errorf("error adding route %s: %w", destination, err): its text
\* holds the destination string and the kernel's text.
addRoute(destination, table, faults) ==
    IF ~parseDestination(destination).err.nil
    THEN { [err |-> parseDestination(destination).err, routes |-> table, called |-> FALSE] }
    ELSE { [err |-> IF r.err.nil THEN NilErr
                    ELSE Err(Syntax(destination).contains \cup r.err.text),
            routes |-> r.routes,
            called |-> TRUE] :
           r \in RouteAdd(parseDestination(destination).ipNet, table, faults) }

(***************************************************************************)
(* addRoutesFromDir (lines 366-451) and the calls of it in main.           *)
(***************************************************************************)
\* What the part of a call before the loop over the files may find (lines
\* 485/492 and 367-404).  The first call's gateway and interface went
\* through setIpTunInterface, which ends the process unless both are set
\* and the gateway parses; the second call's are whatever the
\* configuration holds.
DirAnswers(k) ==
    { "nodir", "linknotfound", "linkerr", "walkerr", "nofiles", "ok" }
    \cup (IF k = 2 THEN { "unconfigured", "badgateway" } ELSE {})

\* main reaches line 485 or 492, and addRoutesFromDir its line 401, unless
\* one of the tests before it ends the call
EnterDir ==
    /\ Running
    /\ mpc = "dir"
    /\ \E a \in DirAnswers(dir) : answer' = a
    /\ mpc' = "resolved"
    /\ UNCHANGED << envVars, routes, statsVars, chanVars, writerVars, closeVars,
                    reports, dir, remaining, dest, batchVars, hpc, proc >>

\* addRoutesFromDir returns to main: on to the second call, or to line 499
ReturnToMain ==
    IF dir = 1
    THEN dir' = 2 /\ mpc' = "dir"
    ELSE dir' = dir /\ mpc' = "close"

\* DirBranch without the log.Fatalf of line 376: a link that is not found
\* is returned as an error like any other
DirBranch_NoFatal ==
    /\ Running
    /\ mpc = "resolved"
    /\ answer' = ""
    /\ CASE answer = "ok" ->
              /\ mpc' = "file"
              /\ UNCHANGED << dir, proc >>
         [] OTHER ->
              /\ ReturnToMain
              /\ UNCHANGED proc
    /\ UNCHANGED << envVars, routes, statsVars, chanVars, writerVars, closeVars,
                    reports, remaining, dest, batchVars, hpc >>

\* what the call does with what it found: log.Fatalf when the link is not
\* found (line 376), return (nil or an error, which main only logs), or go
\* on to the loop over the files
DirBranch ==
    /\ Running
    /\ mpc = "resolved"
    /\ answer' = ""
    /\ CASE answer = "linknotfound" ->
              /\ proc' = "exit1"
              /\ UNCHANGED << mpc, dir >>
         [] answer = "ok" ->
              /\ mpc' = "file"
              /\ UNCHANGED << dir, proc >>
         [] OTHER ->
              /\ ReturnToMain
              /\ UNCHANGED proc
    /\ UNCHANGED << envVars, routes, statsVars, chanVars, writerVars, closeVars,
                    reports, remaining, dest, batchVars, hpc >>

\* the loop over jsonFiles is over: return nil
FilesDone ==
    /\ Running
    /\ mpc = "file"
    /\ ReturnToMain
    /\ UNCHANGED << envVars, routes, statsVars, chanVars, writerVars, closeVars,
                    reports, answer, remaining, dest, batchVars, hpc, proc >>

\* lines 408-421: the next file holds n destinations; a new WaitGroup and a
\* new semaphore channel of capacity goroutineCount.  (A file that cannot
\* be read or parsed is skipped, lines 409-418, which changes nothing.)
ReadFile ==
    /\ Running
    /\ mpc = "file"
    /\ \E n \in 0..(inputs.budget - dispatched) : remaining' = n
    /\ sem' = 0
    /\ wg' = 0
    /\ workers' = << >>
    /\ mpc' = "range"
    /\ UNCHANGED << envVars, routes, statsVars, chanVars, writerVars, closeVars,
                    reports, dir, answer, dest, dispatched, hpc, proc >>

\* Acquire without the wg.Add(1) of line 424
Acquire_NoAdd ==
    /\ Running
    /\ mpc = "range"
    /\ remaining > 0
    /\ sem < goroutineCount
    /\ \E d \in inputs.destinations : dest' = d
    /\ remaining' = remaining - 1
    /\ sem' = sem + 1
    /\ mpc' = "go"
    /\ UNCHANGED << envVars, routes, statsVars, chanVars, writerVars, closeVars,
                    reports, dir, answer, workers, wg, dispatched, hpc, proc >>

\* Acquire, sending on sem without waiting for room
Acquire_NoWait ==
    /\ Running
    /\ mpc = "range"
    /\ remaining > 0
    /\ \E d \in inputs.destinations : dest' = d
    /\ remaining' = remaining - 1
    /\ wg' = wg + 1
    /\ sem' = sem + 1
    /\ mpc' = "go"
    /\ UNCHANGED << envVars, routes, statsVars, chanVars, writerVars, closeVars,
                    reports, dir, answer, workers, dispatched, hpc, proc >>

\* lines 423-425: the next destination; wg.Add(1); sem <- struct{}{}, which
\* waits while the channel holds goroutineCount tokens
Acquire ==
    /\ Running
    /\ mpc = "range"
    /\ remaining > 0
    /\ sem < goroutineCount
    /\ \E d \in inputs.destinations : dest' = d
    /\ remaining' = remaining - 1
    /\ wg' = wg + 1
    /\ sem' = sem + 1
    /\ mpc' = "go"
    /\ UNCHANGED << envVars, routes, statsVars, chanVars, writerVars, closeVars,
                    reports, dir, answer, workers, dispatched, hpc, proc >>

\* a goroutine as the go statement of line 426 starts it
NewWorker(d) == [pc |-> "addRoute", d |-> d, err |-> NilErr, called |-> FALSE]

\* a goroutine that has ended
DoneWorker == [pc |-> "done", d |-> "", err |-> NilErr, called |-> FALSE]

\* line 426: go func(d string) {...}(dest)
Launch ==
    /\ Running
    /\ mpc = "go"
    /\ workers' = Append(workers, NewWorker(dest))
    /\ dispatched' = dispatched + 1
    /\ dest' = ""
    /\ mpc' = "range"
    /\ UNCHANGED << envVars, routes, statsVars, chanVars, writerVars, closeVars,
                    reports, dir, answer, remaining, sem, wg, hpc, proc >>

\* the loop over destinations is over: on to wg.Wait()
RangeDone ==
    /\ Running
    /\ mpc = "range"
    /\ remaining = 0
    /\ mpc' = "wait"
    /\ UNCHANGED << envVars, routes, statsVars, chanVars, writerVars, closeVars,
                    reports, dir, answer, remaining, dest, batchVars, hpc, proc >>

\* Wait, returning without waiting for the counter to reach zero
Wait_NoJoin ==
    /\ Running
    /\ mpc = "wait"
    /\ mpc' = "file"
    /\ UNCHANGED << envVars, routes, statsVars, chanVars, writerVars, closeVars,
                    reports, dir, answer, remaining, dest, batchVars, hpc, proc >>

\* line 448: wg.Wait() returns when the counter is zero
Wait ==
    /\ Running
    /\ mpc = "wait"
    /\ wg = 0
    /\ mpc' = "file"
    /\ UNCHANGED << envVars, routes, statsVars, chanVars, writerVars, closeVars,
                    reports, dir, answer, remaining, dest, batchVars, hpc, proc >>

(***************************************************************************)
(* The worker goroutine (lines 426-445).                                   *)
(***************************************************************************)
WorkerIds == 1..Len(workers)

\* line 429: addRoute(d, gwIP, ifaceIndex)
WorkerAddRoute(i) ==
    /\ Running
    /\ workers[i].pc = "addRoute"
    /\ \E r \in addRoute(workers[i].d, routes, kernelFault) :
          /\ routes' = r.routes
          /\ workers' = [workers EXCEPT ![i] =
                            [@ EXCEPT !.pc = "record", !.err = r.err, !.called = r.called]]
    /\ UNCHANGED << envVars, statsVars, chanVars, writerVars, closeVars, reports,
                    mainVars, sem, wg, dispatched, hpc, proc >>

\* the goroutine after its outcome is recorded: err is not read again
Recorded(w, pc) == [w EXCEPT !.pc = pc, !.err = NilErr, !.called = FALSE]

\* WorkerRecord with every failure but EEXIST ending the process
WorkerRecord_FailFast(i) ==
    /\ Running
    /\ workers[i].pc = "record"
    /\ IF workers[i].err.nil
       THEN /\ stats' = AddSuccess(stats)
            /\ workers' = [workers EXCEPT ![i] = Recorded(@, "release")]
            /\ UNCHANGED proc
       ELSE CASE classifyError(workers[i].err.text) = "file_exists" ->
                    /\ stats' = AtomicAdd(stats, "AlreadyExist")
                    /\ workers' = [workers EXCEPT ![i] = Recorded(@, "send")]
                    /\ UNCHANGED proc
              [] OTHER ->
                    /\ proc' = "exit1"
                    /\ UNCHANGED << stats, workers >>
    /\ UNCHANGED << envVars, routes, chanVars, writerVars, closeVars, reports,
                    mainVars, sem, wg, dispatched, hpc >>

\* lines 429-444: the outcome is recorded.  AddAlreadyExist (lines 135-138)
\* is two steps, the increment here and the channel send in WorkerSend;
\* log.Fatalf ends the process with status 1.
WorkerRecord(i) ==
    /\ Running
    /\ workers[i].pc = "record"
    /\ IF workers[i].err.nil
       THEN /\ stats' = AddSuccess(stats)
            /\ workers' = [workers EXCEPT ![i] = Recorded(@, "release")]
            /\ UNCHANGED proc
       ELSE CASE classifyError(workers[i].err.text) = "file_exists" ->
                    /\ stats' = AtomicAdd(stats, "AlreadyExist")
                    /\ workers' = [workers EXCEPT ![i] = Recorded(@, "send")]
                    /\ UNCHANGED proc
              [] classifyError(workers[i].err.text) = "no_such_device" ->
                    /\ proc' = "exit1"
                    /\ UNCHANGED << stats, workers >>
              [] OTHER ->
                    /\ stats' = AddError(stats, classifyError(workers[i].err.text))
                    /\ workers' = [workers EXCEPT ![i] = Recorded(@, "release")]
                    /\ UNCHANGED proc
    /\ UNCHANGED << envVars, routes, chanVars, writerVars, closeVars, reports,
                    mainVars, sem, wg, dispatched, hpc >>

\* line 137: s.dupChan <- route.  The send waits while the channel is full;
\* on a closed channel it panics.
WorkerSend(i) ==
    /\ Running
    /\ workers[i].pc = "send"
    /\ IF dupClosed
       THEN /\ proc' = "panic: send on closed channel"
            /\ UNCHANGED << dupChan, workers >>
       ELSE /\ Len(dupChan) < duplicatesChanBuffer
            /\ dupChan' = Append(dupChan,
                                 FormatRoute(workers[i].d, Gateways[dir], Interfaces[dir]))
            /\ workers' = [workers EXCEPT ![i].pc = "release"]
            /\ UNCHANGED proc
    /\ UNCHANGED << envVars, routes, statsVars, dupClosed, writerVars, closeVars,
                    reports, mainVars, sem, wg, dispatched, hpc >>

\* WorkerRelease without the receive from sem of line 428
WorkerRelease_NoReceive(i) ==
    /\ Running
    /\ workers[i].pc = "release"
    /\ workers' = [workers EXCEPT ![i].pc = "wgDone"]
    /\ UNCHANGED << envVars, routes, statsVars, chanVars, writerVars, closeVars,
                    reports, mainVars, sem, wg, dispatched, hpc, proc >>

\* line 428, the deferred func() { <-sem }(), which runs first
WorkerRelease(i) ==
    /\ Running
    /\ workers[i].pc = "release"
    /\ sem > 0
    /\ sem' = sem - 1
    /\ workers' = [workers EXCEPT ![i].pc = "wgDone"]
    /\ UNCHANGED << envVars, routes, statsVars, chanVars, writerVars, closeVars,
                    reports, mainVars, wg, dispatched, hpc, proc >>

\* line 427, the deferred wg.Done(), which runs last; the goroutine ends
WorkerDone(i) ==
    /\ Running
    /\ workers[i].pc = "wgDone"
    /\ wg' = wg - 1
    /\ workers' = [workers EXCEPT ![i] = DoneWorker]
    /\ UNCHANGED << envVars, routes, statsVars, chanVars, writerVars, closeVars,
                    reports, mainVars, sem, dispatched, hpc, proc >>

(***************************************************************************)
(* The program.                                                            *)
(***************************************************************************)
Next ==
    \/ EnterDir
    \/ DirBranch
    \/ FilesDone
    \/ ReadFile
    \/ Acquire
    \/ Launch
    \/ RangeDone
    \/ Wait
    \/ \E i \in WorkerIds : WorkerAddRoute(i)
    \/ \E i \in WorkerIds : WorkerRecord(i)
    \/ \E i \in WorkerIds : WorkerSend(i)
    \/ \E i \in WorkerIds : WorkerRelease(i)
    \/ \E i \in WorkerIds : WorkerDone(i)
    \/ WriterReceive
    \/ WriterRangeEnd
    \/ Flush
    \/ WriterExit
    \/ \E c \in Closers : OnceDone(c)
    \/ \E c \in Closers : OnceEnter(c)
    \/ \E c \in Closers : AwaitWriterDone(c)
    \/ \E p \in Printers : PrintStats(p)
    \/ Signal
    \/ MainReturn

Spec == Init /\ [][Next]_vars

(***************************************************************************)
(* Runs whose route files hold one well-formed destination over and over,  *)
(* on a routing table that does not hold its route yet and a kernel that   *)
(* answers success or EEXIST.                                              *)
(***************************************************************************)
InitDup ==
    /\ Started([destinations |-> {"10.0.0.0/24"}, budget |-> MaxDispatched], { {} })
    /\ routes = {}

SpecDup == InitDup /\ [][Next]_vars

(***************************************************************************)
(* Runs of one destination, of any syntax, on any of the initial tables    *)
(* and a kernel with any of the faults.                                    *)
(***************************************************************************)
InitSingle == Started([destinations |-> Destinations, budget |-> 1], KernelFaults)

SpecSingle == InitSingle /\ [][Next]_vars

(***************************************************************************)
(* Runs in which every destination is a duplicate: the route is installed  *)
(* already, one goroutine at a time, MaxDuplicates destinations.           *)
(***************************************************************************)
InitRecorder ==
    /\ Started([destinations |-> {"10.0.0.0/24"}, budget |-> MaxDuplicates], { {} })
    /\ goroutineCount = 1
    /\ routes = {IPNet("10.0.0.0", 24, 32)}

SpecRecorder == InitRecorder /\ [][Next]_vars

(***************************************************************************)
(* Runs under fair scheduling, every destination a duplicate, so that the  *)
(* records outnumber the channel's capacity.  Every goroutine that can     *)
(* take a step is eventually scheduled; the signal may never come; and the *)
(* list of route files of a directory is finite, so the loop over it ends. *)
(***************************************************************************)
InitLive ==
    /\ Started([destinations |-> {"10.0.0.0/24"}, budget |-> MaxDispatched], { {} })
    /\ routes = {IPNet("10.0.0.0", 24, 32)}

\* a step of any goroutine of the process
Progress ==
    \/ EnterDir \/ DirBranch \/ FilesDone \/ ReadFile
    \/ Acquire \/ Launch \/ RangeDone \/ Wait
    \/ \E i \in WorkerIds :
          \/ WorkerAddRoute(i) \/ WorkerRecord(i) \/ WorkerSend(i)
          \/ WorkerRelease(i) \/ WorkerDone(i)
    \/ WriterReceive \/ WriterRangeEnd \/ Flush \/ WriterExit
    \/ \E c \in Closers : OnceDone(c) \/ OnceEnter(c) \/ AwaitWriterDone(c)
    \/ \E p \in Printers : PrintStats(p)
    \/ MainReturn

SpecLive ==
    InitLive /\ [][Next]_vars /\ WF_vars(Progress) /\ SF_vars(FilesDone)

(***************************************************************************)
(* classifyError on its own, applied to every error text.                  *)
(***************************************************************************)
InitClassify ==
    /\ errText \in SUBSET Markers
    /\ errKind = ""
    /\ goroutineCount = 1
    /\ kernelFault = {}
    /\ inputs = [destinations |-> {}, budget |-> 0]
    /\ routes = {}
    /\ stats = [c \in CounterNames |-> 0]
    /\ dupChan = << >>
    /\ dupClosed = FALSE
    /\ writerDone = FALSE
    /\ duplicatesFile = "nil"
    /\ fileLines = << >>
    /\ buffer = << >>
    /\ flushes = 0
    /\ dropped = 0
    /\ wpc = "range"
    /\ closeOnce = [done |-> FALSE, m |-> "free"]
    /\ cpc = [c \in Closers |-> "idle"]
    /\ reports = [p \in Printers |-> << >>]
    /\ mpc = "dir"
    /\ dir = 1
    /\ answer = ""
    /\ remaining = 0
    /\ dest = ""
    /\ sem = 0
    /\ wg = 0
    /\ workers = << >>
    /\ dispatched = 0
    /\ hpc = "wait"
    /\ proc = "running"

\* line 430: errType := classifyError(err)
Classify ==
    /\ errKind = ""
    /\ errKind' = classifyError(errText)
    /\ UNCHANGED << goroutineCount, kernelFault, inputs, errText, routes, statsVars,
                    chanVars, writerVars, closeVars, reports, mainVars, batchVars,
                    hpc, proc >>

NextClassify == Classify

SpecClassify == InitClassify /\ [][NextClassify]_vars

(***************************************************************************)
(* Properties.                                                             *)
(***************************************************************************)
\* workers that have started and not yet finished their addRoute call and
\* the recording of its outcome
InFlight == { i \in WorkerIds : workers[i].pc \in {"addRoute", "record", "send"} }

\* workers whose token is still in sem
HoldingToken ==
    { i \in WorkerIds : workers[i].pc \in {"addRoute", "record", "send", "release"} }

\* C1: at most goroutineCount workers are in flight, and every worker was
\* launched behind a token of its own in the semaphore channel, which never
\* holds more than goroutineCount tokens.
C1_ConcurrencyLimit ==
    /\ Cardinality(InFlight) <= goroutineCount
    /\ Cardinality(HoldingToken) + (IF mpc = "go" THEN 1 ELSE 0) = sem
    /\ sem <= goroutineCount

\* the limit is reached and the dispatcher waits with destinations left
C1_LimitReached ==
    /\ Cardinality(InFlight) = goroutineCount
    /\ mpc = "range"
    /\ remaining > 0

\* the total of the seven counters
TotalCounted == SumSeq([i \in 1..Len(CounterOrder) |-> stats[CounterOrder[i]]])

\* no goroutine of a batch is running and none is about to be launched
Quiescent == mpc # "go" /\ \A i \in WorkerIds : workers[i].pc = "done"

\* C2: whenever the batches dispatched so far have all returned (and so at
\* line 499, once every batch has), the seven counters add up to the number
\* of destinations dispatched: every destination is counted once.
C2_CounterTotals == Quiescent => TotalCounted = dispatched

\* all batches have returned; two destinations went to different counters
C2_AllReturned ==
    /\ mpc = "close"
    /\ dispatched >= 2
    /\ stats["Success"] >= 1
    /\ stats["UnknownError"] >= 1

\* C3: once wg.Wait has returned (main is past line 448, or between
\* batches), every goroutine of the batch has ended, the WaitGroup counter
\* is zero and every token has left sem; none is still in flight.
C3_FullJoin ==
    mpc \in {"file", "dir", "resolved", "close", "defer", "exit"} =>
        /\ \A i \in WorkerIds : workers[i].pc = "done"
        /\ wg = 0
        /\ sem = 0

\* wg.Wait has just returned for a batch of two destinations
C3_BatchJoined == mpc = "file" /\ Len(workers) >= 2

\* the destination string parses neither as a CIDR block nor as an address
Malformed(s) == Syntax(s).form = "junk"

\* C4: a worker whose destination is malformed comes back from addRoute
\* without a kernel call, and the recording of its outcome increments the
\* InvalidArgument counter and nothing else.
C4_MalformedCountedInvalid ==
    /\ [](\A i \in WorkerIds :
            (workers[i].pc = "record" /\ Malformed(workers[i].d)) => ~workers[i].called)
    /\ [][\A i \in WorkerIds :
            ( /\ workers[i].pc = "record"
              /\ Malformed(workers[i].d)
              /\ i \in DOMAIN workers'
              /\ workers'[i].pc # "record" )
            => stats' = AtomicAdd(stats, "InvalidArgument")]_vars

\* a step by which a call of Close, or the writer it waits for, gets on
CloseProgress ==
    \/ WriterReceive
    \/ WriterRangeEnd
    \/ Flush
    \/ WriterExit
    \/ \E c \in Closers : OnceDone(c) \/ OnceEnter(c) \/ AwaitWriterDone(c)

\* the records whose channel send has completed
Enqueued ==
    stats["AlreadyExist"] - Cardinality({ i \in WorkerIds : workers[i].pc = "send" })

\* what holds of the calls of Close in every state
CloseOnceState ==
    /\ proc # "panic: close of closed channel"
    /\ Cardinality({ c \in Closers : cpc[c] = "waitWriter" }) <= 1
    /\ closeOnce.m # "free" => cpc[closeOnce.m] = "waitWriter"
    /\ (Running /\ \E c \in Closers : AtCloseCall(c) /\ cpc[c] # "returned")
          => ENABLED CloseProgress
    /\ \A c \in Closers :
          cpc[c] = "returned" =>
             /\ dupClosed
             /\ dupChan = << >>
             /\ buffer = << >>
             /\ Enqueued = Len(fileLines) + dropped

\* C5: however many calls of Close are made, one after the other or at the
\* same time: dupChan is closed once (no call panics closing it again), at
\* most one call runs the function, a call that has not returned can always
\* get on (no deadlock), when a call has returned nothing is left in the
\* queue or the buffer and every record enqueued went through flush(), and
\* a call made after the function has run returns without changing the
\* channel, the writer's state, the file or the counters.
C5_CloseIdempotent ==
    /\ []CloseOnceState
    /\ [][\A c \in Closers :
            (closeOnce.done /\ cpc[c] = "idle" /\ cpc'[c] = "returned")
                => UNCHANGED << chanVars, writerVars, statsVars, closeOnce >>]_vars

\* the handler's call and main's call of Close have both returned
C5_TwoInvocations == cpc["signal"] = "returned" /\ cpc["main"] = "returned"

\* C6: once a call of Close has returned the file holds one line for every
\* AddAlreadyExist call made (file creation and writes permitting).
C6_NoRecordLost ==
    ((\E c \in Closers : cpc[c] = "returned") /\ dropped = 0)
        => Len(fileLines) = stats["AlreadyExist"]

\* C7: when a call of Close has returned, the writer has drained the queue,
\* flushed its buffer, closed the file and ended (writerDone is closed).
C7_CloseWaitsForWriter ==
    \A c \in Closers :
        cpc[c] = "returned" =>
            /\ wpc = "exited"
            /\ writerDone
            /\ dupChan = << >>
            /\ buffer = << >>
            /\ duplicatesFile # "open"

\* main's Close has returned after the writer wrote records to the file
C7_ReturnedAfterFlush == cpc["main"] = "returned" /\ Len(fileLines) >= 1

\* C8: the file exists only once a flush found records in the buffer; with
\* no AlreadyExists outcome it is never created, and nothing is in it
\* before the first such flush.
C8_LazyFile ==
    /\ duplicatesFile # "nil" => flushes >= 1
    /\ stats["AlreadyExist"] = 0 => duplicatesFile = "nil"
    /\ flushes = 0 => fileLines = << >>

\* the first flush, at the threshold, has created the file
C8_CreatedByFlush == duplicatesFile = "open" /\ flushes = 1 /\ wpc = "range"


\* the markers in the order of the claimed precedence, each with its category
Precedence ==
    << << "file exists", "file_exists" >>,
       << "network is unreachable", "network_unreachable" >>,
       << "no such device", "no_such_device" >>,
       << "operation not permitted", "operation_not_permitted" >>,
       << "invalid argument", "invalid_argument" >>,
       << "no route to host", "no_route_to_host" >> >>

\* the category of the first marker of Precedence that the text contains
FirstMatch(errStr) ==
    LET hits == { i \in 1..Len(Precedence) : Precedence[i][1] \in errStr }
    IN  IF hits = {}
        THEN "unknown"
        ELSE Precedence[CHOOSE i \in hits : \A j \in hits : i <= j][2]

\* C9: for every error text, classifyError yields a category, and it is the
\* category of the first marker present in the order file exists, network
\* is unreachable, no such device, operation not permitted, invalid
\* argument, no route to host; "unknown" when the text holds none of them.
C9_ClassifyPrecedence ==
    errKind # "" =>
        /\ errKind \in { Precedence[i][2] : i \in 1..Len(Precedence) } \cup {"unknown"}
        /\ errKind = FirstMatch(errText)

\* a text with two markers has been classified by the earlier one
C9_TwoMarkers ==
    /\ errKind = "network_unreachable"
    /\ {"network is unreachable", "no such device"} \subseteq errText

\* what addRoutesFromDir may find when the interface or the gateway of the
\* call does not resolve
Unresolved == { "linknotfound", "linkerr", "badgateway" }

BatchStart ==
    \/ mpc = "file" /\ mpc' = "range"
    \/ mpc = "dir" /\ mpc' = "resolved"

\* C11: batches never overlap.  When main starts on the next route file, or
\* on the next directory, every goroutine launched for the file before has
\* ended: none is in flight, the WaitGroup is at zero and the semaphore
\* holds no token; and whenever a destination is dispatched, the goroutines
\* in flight are those of its own file, fewer than goroutineCount of them.
C11_BatchesSequential ==
    [][ /\ BatchStart =>
            /\ \A i \in WorkerIds : workers[i].pc = "done"
            /\ wg = 0
            /\ sem = 0
        /\ (mpc = "go" /\ mpc' = "range") =>
            /\ workers' = Append(workers, NewWorker(dest))
            /\ Cardinality(InFlight) < goroutineCount ]_vars

\* a destination of the second route file is in flight after the one of
\* the first file ended
C11_SecondBatchRunning ==
    /\ dispatched = 2
    /\ Len(workers) = 1
    /\ workers[1].pc = "addRoute"

\* C12: once the handler goroutine has received the signal (line 478), main
\* starts no further batch: it begins neither on another route file nor on
\* another directory before the process ends.
C12_NoBatchAfterSignal ==
    [][hpc # "wait" => ~BatchStart]_vars

\* a statistics block has been logged
Printed(p) == reports[p] # << >>

\* C13 as stated: however the process ended after NewStats, a statistics
\* block was printed before it ended.
C13_AlwaysPrinted ==
    proc # "running" => \E p \in Printers : Printed(p)

\* C13: when the process has ended with exit status 0, the flow that ended
\* it (main returning, or the handler's os.Exit(0)) printed the statistics
\* block first, and a block is only ever printed by a caller whose Close
\* has returned, with the writer ended.  (Ending in log.Fatalf or in a
\* panic prints nothing.)
C13_PrintedBeforeCleanExit ==
    /\ (proc = "exit0" /\ mpc = "exit") => Printed("main")
    /\ (proc = "exit0" /\ hpc = "exit") => Printed("signal")
    /\ proc = "exit0" => (mpc = "exit" \/ hpc = "exit")
    /\ \A p \in Printers : Printed(p) => (cpc[p] = "returned" /\ wpc = "exited")

\* the handler ended the process after printing, routes having been
\* dispatched
C13_InterruptedAndPrinted ==
    proc = "exit0" /\ hpc = "exit" /\ Printed("signal") /\ dispatched >= 1

\* the lines of the duplicates file are records of the destination d
LinesOf(d) == \A j \in 1..Len(fileLines) : fileLines[j][1] = d

\* C14: when the same well-formed destination is dispatched k times on a
\* table that does not hold its route, then, whenever all the goroutines
\* have ended, one attempt was counted as Success and the k-1 others as
\* AlreadyExist, whatever the interleaving and the concurrency limit; the
\* statistics main prints say so; and in a run that is not interrupted and
\* whose file writes succeed the duplicates file holds one line for each of
\* the k-1.
C14_OneSuccessRestExist ==
    /\ (Quiescent /\ dispatched >= 1) =>
          /\ stats["Success"] = 1
          /\ stats["AlreadyExist"] = dispatched - 1
          /\ TotalCounted = dispatched
    /\ (Printed("main") /\ dispatched >= 1) =>
          reports["main"] = << <<"Successfully added", 1>>,
                               <<"Already existed (skipped)", dispatched - 1>>,
                               <<"Total processed", dispatched>> >>
    /\ (cpc["main"] = "returned" /\ hpc = "wait" /\ dropped = 0) =>
          /\ Len(fileLines) = stats["AlreadyExist"]
          /\ LinesOf("10.0.0.0/24")

\* two attempts at the destination ran at the same time in one batch, and
\* main has printed one success and one duplicate
C14_TwoOfTheSame ==
    /\ goroutineCount = 2
    /\ Len(workers) = 2
    /\ reports["main"] = << <<"Successfully added", 1>>,
                            <<"Already existed (skipped)", 1>>,
                            <<"Total processed", 2>> >>
    /\ Len(fileLines) = 1

\* the outcome of a goroutine that is back from addRoute
Outcome(w) == IF w.err.nil THEN "success" ELSE classifyError(w.err.text)

\* the counter that stands for an outcome
KindCounter(k) ==
    CASE k = "success" -> "Success"
      [] k = "file_exists" -> "AlreadyExist"
      [] k = "network_unreachable" -> "NetworkUnreachable"
      [] k = "operation_not_permitted" -> "OperationNotPermit"
      [] k = "invalid_argument" -> "InvalidArgument"
      [] k = "no_route_to_host" -> "NoRouteToHost"
      [] k = "unknown" -> "UnknownError"

\* the order in which a goroutine goes through its states
PcEdges ==
    { <<"addRoute", "record">>, <<"record", "send">>, <<"record", "release">>,
      <<"send", "release">>, <<"release", "wgDone">>, <<"wgDone", "done">> }

\* C15: a dispatched goroutine goes from the addRoute call to one outcome
\* and on to its end, never back.  Recording the outcome increments the
\* counter of that outcome by one and nothing else, and only an outcome is
\* ever counted; an AlreadyExists outcome then sends the one record
\* '<dest> via <gateway> dev <iface>'; a NoSuchDevice outcome is never
\* counted and the goroutine's only step ends the process with status 1,
\* counters, queue and semaphore untouched; on the other paths the
\* goroutine takes its token out of the semaphore before it ends.
C15_OutcomeToAction ==
    [][ /\ \A i \in WorkerIds \cap DOMAIN workers' :
              /\ workers'[i].pc # workers[i].pc =>
                    << workers[i].pc, workers'[i].pc >> \in PcEdges
              /\ (workers[i].pc = "record" /\ workers'[i].pc # "record") =>
                    /\ Outcome(workers[i]) # "no_such_device"
                    /\ stats' = AtomicAdd(stats, KindCounter(Outcome(workers[i])))
                    /\ workers'[i].pc =
                          (IF Outcome(workers[i]) = "file_exists" THEN "send" ELSE "release")
                    /\ UNCHANGED << dupChan, sem, proc >>
              /\ (workers[i].pc = "send" /\ workers'[i].pc # "send") =>
                    /\ dupChan' = Append(dupChan, << workers[i].d, " via ", Gateways[dir],
                                                     " dev ", Interfaces[dir] >>)
                    /\ UNCHANGED << stats, sem, proc >>
              /\ (workers[i].pc = "release" /\ workers'[i].pc # "release") =>
                    /\ sem' = sem - 1
                    /\ UNCHANGED << stats, dupChan, proc >>
        /\ stats' # stats =>
              \E i \in WorkerIds \cap DOMAIN workers' :
                  workers[i].pc = "record" /\ workers'[i].pc # "record"
        /\ (proc' = "exit1" /\ mpc # "resolved") =>
              /\ \E i \in WorkerIds :
                    workers[i].pc = "record" /\ Outcome(workers[i]) = "no_such_device"
              /\ UNCHANGED << stats, dupChan, sem, workers >> ]_vars

\* an attempt the kernel refused with EPERM has been counted and has ended
C15_ErrorKindCounted ==
    /\ stats["OperationNotPermit"] = 1
    /\ TotalCounted = 1
    /\ Len(workers) = 1
    /\ workers[1].pc = "done"
    /\ sem = 0

\* C16: recording a failure that is not fatal leaves the process running
\* and main where it is in its loops; main's loop over the destinations
\* only ever moves on by dispatching the next one; no goroutine goes back
\* to the addRoute call; and a run that no signal interrupts ends only in
\* the log.Fatalf of a link that is not found, in the log.Fatalf of a
\* NoSuchDevice outcome, or in main's return after its last call.
C16_FailureDoesNotAbort ==
    [][ /\ \A i \in WorkerIds \cap DOMAIN workers' :
              /\ (workers[i].pc = "record" /\ workers'[i].pc # "record") =>
                    UNCHANGED << proc, mainVars, dispatched, wg >>
              /\ workers'[i].pc = "addRoute" => workers[i].pc = "addRoute"
        /\ remaining' < remaining =>
              (remaining' = remaining - 1 /\ mpc' = "go")
        /\ (hpc' = "wait" /\ proc = "running" /\ proc' # "running") =>
              \/ proc' = "exit1" /\ mpc = "resolved"
              \/ /\ proc' = "exit1"
                 /\ \E i \in WorkerIds :
                       workers[i].pc = "record" /\ Outcome(workers[i]) = "no_such_device"
              \/ proc' = "exit0" /\ mpc = "defer" ]_vars

\* a malformed destination was counted as an error, and main is
\* dispatching the destination after it
C16_DispatchAfterFailure ==
    /\ stats["UnknownError"] = 1
    /\ dispatched = 1
    /\ mpc = "go"
    /\ Len(workers) = 1

\* the prefix length a well-formed destination stands for: its own when it
\* is a CIDR block, the address length of its family when it is a bare
\* address
PrefixLength(d) ==
    IF Syntax(d).form = "cidr" THEN Syntax(d).ones ELSE Syntax(d).bits

\* C17: for a well-formed destination addRoute gets as far as the kernel
\* call, and the route it asks for, installed when the kernel accepts it,
\* has the destination's address and prefix length: /32 for a bare IPv4
\* address, /128 for a bare IPv6 address.
C17_PrefixLength ==
    \A i \in WorkerIds :
        (workers[i].pc = "record" /\ ~Malformed(workers[i].d)) =>
            /\ workers[i].called
            /\ workers[i].err.nil =>
                  \E n \in routes :
                      /\ n.IP = Syntax(workers[i].d).ip
                      /\ n.ones = PrefixLength(workers[i].d)
                      /\ n.bits = Syntax(workers[i].d).bits

\* the number of flushes that write n records, threshold at a time
FlushesFor(n) == (n + duplicatesFlushThreshold - 1) \div duplicatesFlushThreshold

\* C18: the queue never holds more than its capacity and the writer's
\* buffer never more than the flush threshold; the writer is at a flush
\* inside its loop only with the buffer at the threshold, and at its last
\* flush only with the queue closed and drained; after it the buffer is
\* empty; and, with no file error, the file grows by the threshold at each
\* flush of the loop and holds its N lines after ceil(N / threshold)
\* flushes.
C18_QueueAndBuffer ==
    /\ Len(dupChan) <= duplicatesChanBuffer
    /\ Len(buffer) <= duplicatesFlushThreshold
    /\ wpc = "range" => Len(buffer) < duplicatesFlushThreshold
    /\ wpc = "flush" => Len(buffer) = duplicatesFlushThreshold
    /\ wpc = "final" =>
          (dupClosed /\ dupChan = << >> /\ Len(buffer) < duplicatesFlushThreshold)
    /\ wpc \in {"closeFile", "exited"} => (buffer = << >> /\ dupChan = << >>)
    /\ (dropped = 0 /\ wpc \in {"range", "flush", "final"}) =>
          Len(fileLines) = flushes * duplicatesFlushThreshold
    /\ (dropped = 0 /\ wpc \in {"closeFile", "exited"}) =>
          flushes = FlushesFor(Len(fileLines))

\* more records than the threshold went to the file, in two flushes
C18_TwoFlushes ==
    /\ wpc = "exited"
    /\ dropped = 0
    /\ Len(fileLines) > duplicatesFlushThreshold
    /\ flushes = 2

\* C19: no goroutine executes the send of AddAlreadyExist (line 137) on
\* dupChan after close(s.dupChan) (line 194): the process never ends in the
\* panic "send on closed channel".
C19_NoSendAfterClose ==
    proc # "panic: send on closed channel"

\* C20: under fair scheduling main gets out of every batch it is in (the
\* semaphore, the full queue and wg.Wait() never hold it for ever), its
\* call of Close returns, and the run ends; unless the process has ended
\* before.
C20_NoDeadlock ==
    /\ (mpc \in {"range", "go", "wait"}) ~> (mpc = "file" \/ proc # "running")
    /\ (mpc = "close") ~> (cpc["main"] = "returned" \/ proc # "running")
    /\ <>(proc # "running")

\* a goroutine waits to send on the full queue while main waits in
\* wg.Wait()
C20_SendWaitsOnFullQueue ==
    /\ mpc = "wait"
    /\ ~dupClosed
    /\ Len(dupChan) = duplicatesChanBuffer
    /\ \E i \in WorkerIds : workers[i].pc = "send"

\* the goroutines inside AddAlreadyExist, past the increment of line 136
\* and before the end of the send of line 137
PendingSends == Cardinality({ i \in WorkerIds : workers[i].pc = "send" })

\* C21: in every state the AlreadyExist counter is the number of records in
\* the queue, in the writer's buffer and in the file, plus the goroutines
\* that have incremented it and not yet completed their send; so it is
\* never below the number of records enqueued.
C21_RecordsConserved ==
    /\ stats["AlreadyExist"] =
          Len(dupChan) + Len(buffer) + Len(fileLines) + PendingSends
    /\ stats["AlreadyExist"] >= Len(dupChan) + Len(buffer) + Len(fileLines)

====
